---- MODULE Spec2Model ----
(***************************************************************************)
(* Model of the ADIS16000 Arduino driver (src/lib/ADIS16000.cpp).          *)
(*                                                                         *)
(* The driver is a single-threaded object that owns a chip-select pin and  *)
(* a reset pin and talks to the device through byte transfers on the SPI   *)
(* bus.  The model keeps the pins, an SPI slave that decodes what the      *)
(* driver clocks out (16-bit words: write flag, 7 address bits, 8 data     *)
(* bits), the log of what the most recent operation did on the bus, and    *)
(* the local buffers of the two retrieval functions.                       *)
(*                                                                         *)
(* Source text that does not compile is read the way its neighbours read:  *)
(* `bufferx`/`buffery` (lines 180-181) are the local `buffer`, the loop    *)
(* header `i < 511, i++` (line 179) is `i < 511; i++`, `GPO,CTRL`          *)
(* (line 203) is GPO_CTRL and the free function addSensor (line 146) is a  *)
(* member like the others.                                                 *)
(***************************************************************************)
EXTENDS Integers, Sequences, FiniteSets, TLC

VARIABLES
    cs,       \* level of the chip-select pin, "HIGH" or "LOW"
    rst,      \* level of the reset pin
    regs,     \* SPI slave: byte-addressed register file, 0..127 -> 0..255
    rd,       \* SPI slave: register address latched by the last read request
    frame,    \* SPI slave: bytes received since chip-select went low
    page,     \* value of the most recent regWrite to PAGE_ID
    bus,      \* pin and byte events of the most recent operation, in order
    ops,      \* register accesses of the most recent operation, in order
    last,     \* name of the most recent operation
    args,     \* its arguments, as a tuple
    ret,      \* its return value (0 for a returned buffer pointer)
    pc,       \* "idle", or "loop" while readFFTBuffer is inside its for loop
    i,        \* loop counter of readFFTBuffer
    mem,      \* stack memory from the base of the latest local buffer upwards
    buflen,   \* declared length of that local buffer
    stores,   \* indices the most recent operation stored to, in order
    shadow,   \* per register address, the last 16-bit value handed to regWrite
    intBits   \* width of int of the build: 16 (AVR) or 32

vars == <<cs, rst, regs, rd, frame, page, bus, ops, last, args, ret,
          pc, i, mem, buflen, stores, shadow, intBits>>

----------------------------------------------------------------------------
(* Bounds of the model *)

\* sensor network addresses tried are 0..MaxSensor
MaxSensor == 2
\* FFT sample indices tried are 0..MaxSample
MaxSample == 2

SensorAddrs == 0..MaxSensor
Samples == 0..MaxSample
\* data-ready channel selectors tried
DioVals == {0, 1, 2, 3, 255}
\* update intervals and scale factors tried by setPeriodicMode
Intervals == {1, 912}
ScaleFactors == {0, 1}
\* settle delays tried by resetDUT
SettleMs == {0, 10}
\* register addresses and data words tried on regWrite / regRead directly
RegAddrs == {2, 20}
DataVals == {0, 1, 4660, 33023, 65535}
\* raw samples (as 16-bit patterns) and range selectors tried by the scalers
RawSamples == {0, 1, 2, 100, 32767, 32768, 32769, 65535}
Ranges == {0, 1, 5, 7, 10, 20}
IntWidths == {16, 32}

----------------------------------------------------------------------------
(* Register map.  The header that defines these names is not part of the  *)
(* sources at hand; the values are distinct even addresses.               *)

PAGE_ID == 0
GPO_CTRL == 10
BUF_PNTR == 12
X_BUF == 14
Y_BUF == 16
CMD_DATA == 18
GLOB_CMD_G == 20
UPDAT_INT == 22
INT_SCL == 24
GLOB_CMD_S == 26

----------------------------------------------------------------------------
(* Integer helpers: C's fixed-width arithmetic *)

RECURSIVE BitOr(_, _)
BitOr(a, b) ==
    IF a = 0 THEN b
    ELSE IF b = 0 THEN a
    ELSE (IF a % 2 = 1 \/ b % 2 = 1 THEN 1 ELSE 0) + 2 * BitOr(a \div 2, b \div 2)

RECURSIVE BitAnd(_, _)
BitAnd(a, b) ==
    IF a = 0 \/ b = 0 THEN 0
    ELSE (IF a % 2 = 1 /\ b % 2 = 1 THEN 1 ELSE 0) + 2 * BitAnd(a \div 2, b \div 2)

\* conversion to uint8_t / uint16_t
U8(x) == x % 256
U16(x) == x % 65536
\* conversion of a 16-bit pattern to int16_t
ToInt16(x) == IF U16(x) >= 32768 THEN U16(x) - 65536 ELSE U16(x)

----------------------------------------------------------------------------
(* The SPI slave: a register file behind the bus.  While chip-select is    *)
(* low it clocks in bytes and clocks out the 16-bit register selected by   *)
(* the previous read request, high byte first.  When chip-select rises it  *)
(* decodes what it received as 16-bit words, first byte first: a word      *)
(* whose top bit is set writes its low byte to the byte address held in    *)
(* bits 14..8, any other word is a read request for that address.          *)

RegLo(a) == a - (a % 2)
Reg16(rf, a) == rf[RegLo(a) + 1] * 256 + rf[RegLo(a)]

RECURSIVE Decode(_, _, _)
Decode(rf, r, fr) ==
    IF Len(fr) < 2 THEN [regs |-> rf, rd |-> r]
    ELSE IF fr[1] >= 128
         THEN Decode([rf EXCEPT ![fr[1] % 128] = fr[2]], r, SubSeq(fr, 3, Len(fr)))
         ELSE Decode(rf, fr[1], SubSeq(fr, 3, Len(fr)))

\* the byte the slave puts on MISO for the k-th byte of a chip-select pulse
DeviceReply(st, k) ==
    IF st.cs # "LOW" THEN 255
    ELSE IF k = 1 THEN Reg16(st.regs, st.rd) \div 256
    ELSE IF k = 2 THEN Reg16(st.regs, st.rd) % 256
    ELSE 0

DeviceEdge(st, level) ==
    IF st.cs = "HIGH" /\ level = "LOW" THEN [st EXCEPT !.frame = <<>>]
    ELSE IF st.cs = "LOW" /\ level = "HIGH"
         THEN LET d == Decode(st.regs, st.rd, st.frame)
              IN [st EXCEPT !.regs = d.regs, !.rd = d.rd, !.frame = <<>>]
         ELSE st

----------------------------------------------------------------------------
(* Arduino primitives, acting on a record st of the hardware state *)

\* the hardware state at the start of an operation, with empty logs
Cur ==
    [cs |-> cs, rst |-> rst, regs |-> regs, rd |-> rd, frame |-> frame,
     page |-> page, bus |-> <<>>, ops |-> <<>>]

\* a pin level as it is logged: 1 for HIGH, 0 for LOW
PinBit(level) == IF level = "HIGH" THEN 1 ELSE 0

\* digitalWrite(_CS, level)
digitalWriteCS(st, level) ==
    LET d == DeviceEdge(st, level)
    IN [d EXCEPT !.cs = level, !.bus = Append(@, [e |-> "cs", v |-> PinBit(level)])]

\* digitalWrite(_RST, level)
digitalWriteRST(st, level) ==
    [st EXCEPT !.rst = level, !.bus = Append(@, [e |-> "rst", v |-> PinBit(level)])]

\* SPI.transfer(b): the state afterwards and the byte received
transfer(st, b) ==
    LET sel == st.cs = "LOW"
        fr == IF sel THEN Append(st.frame, U8(b)) ELSE st.frame
    IN [st |-> [st EXCEPT !.frame = fr,
                          !.bus = Append(@, [e |-> "xfer", v |-> U8(b)])],
        r |-> DeviceReply(st, Len(st.frame) + 1)]

----------------------------------------------------------------------------
(* Register access *)

\* regRead with the second chip-select assertion left out
regReadOnePulse(st, regAddr) ==
    LET s1 == digitalWriteCS(st, "LOW")
        t1 == transfer(s1, regAddr)
        t2 == transfer(t1.st, 0)
        m == transfer(t2.st, 0)
        l == transfer(m.st, 0)
        s4 == digitalWriteCS(l.st, "HIGH")
        dataOut == ToInt16(BitOr(U16(m.r * 256), BitAnd(l.r, 255)))
    IN [st |-> [s4 EXCEPT !.ops = Append(@, [k |-> "R", reg |-> regAddr,
                                             data |-> dataOut, page |-> st.page])],
        val |-> dataOut]

\* int16_t regRead(uint8_t regAddr)
regRead(st, regAddr) ==
    LET s1 == digitalWriteCS(st, "LOW")
        t1 == transfer(s1, regAddr)
        t2 == transfer(t1.st, 0)
        s2 == digitalWriteCS(t2.st, "HIGH")
        s3 == digitalWriteCS(s2, "LOW")
        m == transfer(s3, 0)
        l == transfer(m.st, 0)
        s4 == digitalWriteCS(l.st, "HIGH")
        dataOut == ToInt16(BitOr(U16(m.r * 256), BitAnd(l.r, 255)))
    IN [st |-> [s4 EXCEPT !.ops = Append(@, [k |-> "R", reg |-> regAddr,
                                             data |-> dataOut, page |-> st.page])],
        val |-> dataOut]

\* int regWrite(uint8_t regAddr, uint16_t regData); returns 1
regWrite(st, regAddr, regData) ==
    LET addr == U16(BitOr(BitAnd(regAddr, 127), 128) * 256)
        lowWord == BitOr(addr, BitAnd(regData, 255))
        highWord == BitOr(BitOr(addr, 256), BitAnd(regData \div 256, 255))
        s1 == digitalWriteCS(st, "LOW")
        t1 == transfer(s1, U8(lowWord))
        t2 == transfer(t1.st, U8(highWord))
        s2 == digitalWriteCS(t2.st, "HIGH")
    IN [s2 EXCEPT !.ops = Append(@, [k |-> "W", reg |-> regAddr,
                                     data |-> U16(regData), page |-> st.page]),
                  !.page = IF regAddr = PAGE_ID THEN U16(regData) ELSE @]

----------------------------------------------------------------------------
(* Device control operations: each takes the hardware state and gives the *)
(* state afterwards and the value returned.                               *)

\* int resetDUT(uint8_t ms); the delays leave no trace on the pins
resetDUT(st, ms) ==
    LET s1 == digitalWriteRST(st, "LOW")
        s2 == digitalWriteRST(s1, "HIGH")
    IN [st |-> s2, val |-> 1]

\* int addSensor(uint8_t sensorAddr)
addSensor(st, sensorAddr) ==
    LET s1 == regWrite(st, GLOB_CMD_G, 1)
        s2 == regWrite(s1, CMD_DATA, sensorAddr)
    IN [st |-> s2, val |-> 1]

\* int removeSensor(uint8_t sensorAddr)
removeSensor(st, sensorAddr) ==
    LET s1 == regWrite(st, CMD_DATA, sensorAddr)
        s2 == regWrite(s1, GLOB_CMD_G, 256)
    IN [st |-> s2, val |-> 1]

\* int saveGatewaySettings()
saveGatewaySettings(st) ==
    LET s1 == regWrite(st, PAGE_ID, 0)
        s2 == regWrite(s1, GLOB_CMD_G, 64)
    IN [st |-> s2, val |-> 1]

\* int saveSensorSettings(uint8_t sensorAddr)
saveSensorSettings(st, sensorAddr) ==
    LET s1 == regWrite(st, PAGE_ID, sensorAddr)
        s2 == regWrite(s1, GLOB_CMD_S, 64)
        s3 == regWrite(s2, PAGE_ID, 0)
        s4 == regWrite(s3, GLOB_CMD_G, 2)
    IN [st |-> s4, val |-> 1]

\* setDataReady that writes the GPIO control register for any selector
setDataReadyAlwaysWrites(st, dio) ==
    LET s1 == regWrite(st, PAGE_ID, 0)
    IN IF dio = 2
       THEN [st |-> regWrite(s1, GPO_CTRL, 32), val |-> dio]
       ELSE [st |-> regWrite(s1, GPO_CTRL, 8), val |-> IF dio = 1 THEN dio ELSE 0]

\* int setDataReady(uint8_t dio)
setDataReady(st, dio) ==
    LET s1 == regWrite(st, PAGE_ID, 0)
    IN IF dio = 1
       THEN [st |-> regWrite(s1, GPO_CTRL, 8), val |-> dio]
       ELSE IF dio = 2
       THEN [st |-> regWrite(s1, GPO_CTRL, 32), val |-> dio]
       \* `dio != 1 || 2` is (dio != 1) || 2, which is true for every dio
       ELSE IF (dio # 1) \/ (2 # 0)
       THEN [st |-> s1, val |-> 0]
       ELSE [st |-> s1, val |-> 0]

\* int setPeriodicMode(uint16_t interval, uint8_t scalefactor, uint8_t sensorAddr)
setPeriodicMode(st, interval, scalefactor, sensorAddr) ==
    LET s1 == regWrite(st, PAGE_ID, sensorAddr)
        s2 == regWrite(s1, UPDAT_INT, interval)
        s3 == regWrite(s2, INT_SCL, scalefactor)
        s4 == regWrite(s3, GLOB_CMD_S, 2048)
    IN [st |-> s4, val |-> 1]

----------------------------------------------------------------------------
(* Buffer retrieval.  A local array lives on the stack; mem is the stack  *)
(* from the array's first element upwards, so a store past the declared   *)
(* length lands in mem beyond the array.                                  *)

\* int16_t buffer [512]
BufLen == 512
\* the loop runs while i < 511
LoopEnd == 511
\* the Y store goes to i + 256
YOffset == 256
\* int16_t buffer [2]
FFTLen == 2

MemTop == LoopEnd + YOffset
\* an element nothing has been stored to yet
Uninit == [reg |-> -1, val |-> 0]
Fresh == [j \in 0..MemTop |-> Uninit]
\* what a store of a value read from register reg leaves in an element
Elem(reg, v) == [reg |-> reg, val |-> v]

\* readFFTBuffer up to the for loop: page select, pointer reset, two commands
readFFTBufferBegin(st, sensorAddr) ==
    LET s1 == regWrite(st, PAGE_ID, sensorAddr)
        s2 == regWrite(s1, BUF_PNTR, 0)
        s3 == regWrite(s2, GLOB_CMD_S, 2048)
        s4 == regWrite(s3, GLOB_CMD_G, 2)
    IN s4

\* one pass of the loop body with counter n on memory m
readFFTBufferBody(st, m, n) ==
    LET x == regRead(st, X_BUF)
        m1 == [m EXCEPT ![n] = Elem(X_BUF, x.val)]
        y == regRead(x.st, Y_BUF)
        m2 == [m1 EXCEPT ![n + YOffset] = Elem(Y_BUF, y.val)]
    IN [st |-> y.st, mem |-> m2, stores |-> <<n, n + YOffset>>]

\* readFFT with the two register reads in the other order
readFFTSwapped(st, sample, sensorAddr) ==
    LET s1 == regWrite(st, PAGE_ID, sensorAddr)
        s2 == regWrite(s1, BUF_PNTR, sample)
        y == regRead(s2, Y_BUF)
        x == regRead(y.st, X_BUF)
        m1 == [Fresh EXCEPT ![1] = Elem(X_BUF, x.val)]
        m2 == [m1 EXCEPT ![2] = Elem(Y_BUF, y.val)]
    IN [st |-> x.st, val |-> 0, mem |-> m2, stores |-> <<1, 2>>]

\* int16_t * readFFT(uint8_t sample, uint8_t sensorAddr)
readFFT(st, sample, sensorAddr) ==
    LET s1 == regWrite(st, PAGE_ID, sensorAddr)
        s2 == regWrite(s1, BUF_PNTR, sample)
        x == regRead(s2, X_BUF)
        m1 == [Fresh EXCEPT ![1] = Elem(X_BUF, x.val)]
        y == regRead(x.st, Y_BUF)
        m2 == [m1 EXCEPT ![2] = Elem(Y_BUF, y.val)]
    IN [st |-> y.st, val |-> 0, mem |-> m2, stores |-> <<1, 2>>]

----------------------------------------------------------------------------
(* Scaling functions.  A float is kept as an integer count of 1e-5, which *)
(* holds every constant of the source exactly.  sensorData is given as    *)
(* its 16-bit pattern u; w is the width of int.                           *)

\* conversion of a non-negative float (in 1e-5) to int: the fraction is dropped
IntTrunc(x) == x \div 100000
\* conversion of an int to float (in 1e-5)
ToFloat(n) == n * 100000

\* the sign adjustment shared by the four functions.  With a 16-bit int the
\* literals 0x8000 and 0xFFFF are unsigned and the subtraction wraps; with a
\* 32-bit int they are int and it does not.
SignAdjust(u, w) ==
    IF U16(u) >= 32768
    THEN IF w = 16 THEN ToInt16(U16(U16(u) - 65535)) ELSE ToInt16(u) - 65535
    ELSE ToInt16(u)

\* the constants of scaleTime's switch, in 1e-5
TimeLsb(gRange) ==
    CASE gRange = 1 -> 3050
      [] gRange = 5 -> 15260
      [] gRange = 10 -> 30520
      [] gRange = 20 -> 61040
      [] OTHER -> 3050

\* the constants of scaleFFT's switch, in 1e-5
FFTLsb(gRange) ==
    CASE gRange = 1 -> 1530
      [] gRange = 5 -> 7630
      [] gRange = 10 -> 15260
      [] gRange = 20 -> 30520
      [] OTHER -> 1530

\* 0.00044 and 0.0815, in 1e-5
SupplyLsb == 44
TempLsb == 8150

\* float scaleTime(int16_t sensorData, int gRange): lsbrange is an int
scaleTime(u, gRange, w) ==
    LET lsbrange == IntTrunc(TimeLsb(gRange))
        signedData == SignAdjust(u, w)
    IN ToFloat(signedData * lsbrange)

\* float scaleFFT(int16_t sensorData, int gRange): lsbrange is an int
scaleFFT(u, gRange, w) ==
    LET lsbrange == IntTrunc(FFTLsb(gRange))
        signedData == SignAdjust(u, w)
    IN ToFloat(signedData * lsbrange)

\* float scaleSupply(int16_t sensorData)
scaleSupply(u, w) == SignAdjust(u, w) * SupplyLsb

\* float scaleTemp(int16_t sensorData)
scaleTemp(u, w) == SignAdjust(u, w) * TempLsb

----------------------------------------------------------------------------
(* The state after construction *)

\* the hardware before the constructor runs: pinMode(OUTPUT) drives both
\* pins low until the first digitalWrite
PowerOn ==
    [cs |-> "LOW", rst |-> "LOW", regs |-> [a \in 0..127 |-> 0], rd |-> 0,
     frame |-> <<>>, page |-> 0, bus |-> <<>>, ops |-> <<>>]

\* ADIS16000(int CS, int RST)
Construct(st) == digitalWriteRST(digitalWriteCS(st, "HIGH"), "HIGH")

InitWith(widths) ==
    LET st == Construct(PowerOn)
    IN /\ cs = st.cs /\ rst = st.rst /\ regs = st.regs /\ rd = st.rd
       /\ frame = st.frame /\ page = st.page /\ bus = st.bus /\ ops = st.ops
       /\ last = "ADIS16000" /\ args = <<>> /\ ret = 0
       /\ pc = "idle" /\ i = 0 /\ mem = Fresh /\ buflen = 0 /\ stores = <<>>
       /\ shadow = [a \in RegAddrs |-> -1]
       /\ intBits \in widths

\* the library is written for 8-bit AVR boards, where int has 16 bits
Init == InitWith({16})

----------------------------------------------------------------------------
(* Actions: one call of a driver function each *)

\* the hardware state and the call record after a call that returned r
Finish(name, a, r) ==
    /\ cs' = r.st.cs /\ rst' = r.st.rst /\ regs' = r.st.regs /\ rd' = r.st.rd
    /\ frame' = r.st.frame /\ page' = r.st.page
    /\ bus' = r.st.bus /\ ops' = r.st.ops
    /\ last' = name /\ args' = a /\ ret' = r.val

\* a call that declares no buffer: the storage of an earlier call's local
\* array is no longer that array
NoBuffer == mem' = Fresh /\ buflen' = 0 /\ stores' = <<>>

ResetDUT ==
    /\ pc = "idle"
    /\ \E ms \in SettleMs : Finish("resetDUT", <<ms>>, resetDUT(Cur, ms))
    /\ NoBuffer
    /\ UNCHANGED <<pc, i, shadow, intBits>>

AddSensor ==
    /\ pc = "idle"
    /\ \E a \in SensorAddrs : Finish("addSensor", <<a>>, addSensor(Cur, a))
    /\ NoBuffer
    /\ UNCHANGED <<pc, i, shadow, intBits>>

RemoveSensor ==
    /\ pc = "idle"
    /\ \E a \in SensorAddrs : Finish("removeSensor", <<a>>, removeSensor(Cur, a))
    /\ NoBuffer
    /\ UNCHANGED <<pc, i, shadow, intBits>>

SaveGatewaySettings ==
    /\ pc = "idle"
    /\ Finish("saveGatewaySettings", <<>>, saveGatewaySettings(Cur))
    /\ NoBuffer
    /\ UNCHANGED <<pc, i, shadow, intBits>>

SaveSensorSettings ==
    /\ pc = "idle"
    /\ \E a \in SensorAddrs :
          Finish("saveSensorSettings", <<a>>, saveSensorSettings(Cur, a))
    /\ NoBuffer
    /\ UNCHANGED <<pc, i, shadow, intBits>>

SetDataReady ==
    /\ pc = "idle"
    /\ \E dio \in DioVals : Finish("setDataReady", <<dio>>, setDataReady(Cur, dio))
    /\ NoBuffer
    /\ UNCHANGED <<pc, i, shadow, intBits>>

SetPeriodicMode ==
    /\ pc = "idle"
    /\ \E iv \in Intervals, sf \in ScaleFactors, a \in SensorAddrs :
          Finish("setPeriodicMode", <<iv, sf, a>>, setPeriodicMode(Cur, iv, sf, a))
    /\ NoBuffer
    /\ UNCHANGED <<pc, i, shadow, intBits>>

ReadFFT ==
    /\ pc = "idle"
    /\ \E sample \in Samples, a \in SensorAddrs :
          LET r == readFFT(Cur, sample, a)
          IN /\ Finish("readFFT", <<sample, a>>, r)
             /\ mem' = r.mem
             /\ stores' = r.stores
    /\ buflen' = FFTLen
    /\ UNCHANGED <<pc, i, shadow, intBits>>

\* readFFTBuffer from its entry to the first test of the loop condition
ReadFFTBufferBegin ==
    /\ pc = "idle"
    /\ \E a \in SensorAddrs :
          Finish("readFFTBuffer:begin", <<a>>,
                 [st |-> readFFTBufferBegin(Cur, a), val |-> 0])
    /\ pc' = "loop"
    /\ i' = 0
    /\ mem' = Fresh
    /\ buflen' = BufLen
    /\ stores' = <<>>
    /\ UNCHANGED <<shadow, intBits>>

\* one pass of the loop: i < 511 held, the body runs, i++
ReadFFTBufferLoop ==
    /\ pc = "loop"
    /\ i < LoopEnd
    /\ LET r == readFFTBufferBody(Cur, mem, i)
       IN /\ Finish("readFFTBuffer:loop", args, [st |-> r.st, val |-> 0])
          /\ mem' = r.mem
          /\ stores' = r.stores
    /\ i' = i + 1
    /\ UNCHANGED <<pc, buflen, shadow, intBits>>

\* the loop condition fails and readFFTBuffer returns buffer
ReadFFTBufferReturn ==
    /\ pc = "loop"
    /\ ~(i < LoopEnd)
    /\ pc' = "idle"
    /\ last' = "readFFTBuffer"
    /\ ret' = 0
    /\ bus' = <<>>
    /\ ops' = <<>>
    /\ stores' = <<>>
    /\ UNCHANGED <<cs, rst, regs, rd, frame, page, args, i, mem, buflen,
                   shadow, intBits>>

Next ==
    \/ ResetDUT
    \/ AddSensor
    \/ RemoveSensor
    \/ SaveGatewaySettings
    \/ SaveSensorSettings
    \/ SetDataReady
    \/ SetPeriodicMode
    \/ ReadFFT
    \/ ReadFFTBufferBegin
    \/ ReadFFTBufferLoop
    \/ ReadFFTBufferReturn

Spec == Init /\ [][Next]_vars

----------------------------------------------------------------------------
(* Direct register access against the register file behind the bus *)

RegWrite ==
    /\ \E a \in RegAddrs, d \in DataVals :
          /\ Finish("regWrite", <<a, d>>, [st |-> regWrite(Cur, a, d), val |-> 1])
          /\ shadow' = [shadow EXCEPT ![a] = d]
    /\ UNCHANGED <<pc, i, mem, buflen, stores, intBits>>

RegRead ==
    /\ \E a \in RegAddrs : Finish("regRead", <<a>>, regRead(Cur, a))
    /\ UNCHANGED <<pc, i, mem, buflen, stores, shadow, intBits>>

NextReg == RegWrite \/ RegRead

SpecReg == Init /\ [][NextReg]_vars

----------------------------------------------------------------------------
(* The scaling functions on every raw sample and range selector tried *)

InitScale == InitWith(IntWidths)

ScaleTime ==
    /\ \E u \in RawSamples, g \in Ranges :
          /\ last' = "scaleTime" /\ args' = <<u, g>>
          /\ ret' = scaleTime(u, g, intBits)
    /\ UNCHANGED <<cs, rst, regs, rd, frame, page, bus, ops, pc, i, mem,
                   buflen, stores, shadow, intBits>>

ScaleFFT ==
    /\ \E u \in RawSamples, g \in Ranges :
          /\ last' = "scaleFFT" /\ args' = <<u, g>>
          /\ ret' = scaleFFT(u, g, intBits)
    /\ UNCHANGED <<cs, rst, regs, rd, frame, page, bus, ops, pc, i, mem,
                   buflen, stores, shadow, intBits>>

ScaleSupply ==
    /\ \E u \in RawSamples :
          /\ last' = "scaleSupply" /\ args' = <<u>>
          /\ ret' = scaleSupply(u, intBits)
    /\ UNCHANGED <<cs, rst, regs, rd, frame, page, bus, ops, pc, i, mem,
                   buflen, stores, shadow, intBits>>

ScaleTemp ==
    /\ \E u \in RawSamples :
          /\ last' = "scaleTemp" /\ args' = <<u>>
          /\ ret' = scaleTemp(u, intBits)
    /\ UNCHANGED <<cs, rst, regs, rd, frame, page, bus, ops, pc, i, mem,
                   buflen, stores, shadow, intBits>>

NextScale == ScaleTime \/ ScaleFFT \/ ScaleSupply \/ ScaleTemp

SpecScale == InitScale /\ [][NextScale]_vars

----------------------------------------------------------------------------
(* Reading the logs *)

WriteCount(o) == Cardinality({k \in 1..Len(o) : o[k].k = "W"})
ReadCount(o) == Cardinality({k \in 1..Len(o) : o[k].k = "R"})
IsWrite(o, k, reg, data) == o[k].k = "W" /\ o[k].reg = reg /\ o[k].data = data
IsRead(o, k, reg) == o[k].k = "R" /\ o[k].reg = reg

\* the bytes transferred, in order
Bytes(b) ==
    LET x == SelectSeq(b, LAMBDA ev : ev.e = "xfer")
    IN [k \in 1..Len(x) |-> x[k].v]

CsLowCount(b) == Cardinality({k \in 1..Len(b) : b[k].e = "cs" /\ b[k].v = 0})

\* the level of chip-select just before event k of an operation that was
\* entered with chip-select high
CsBefore(b, k) ==
    LET prior == {j \in 1..(k - 1) : b[j].e = "cs"}
    IN IF prior = {} THEN "HIGH"
       ELSE LET j == CHOOSE n \in prior : \A m \in prior : m <= n
            IN IF b[j].v = 1 THEN "HIGH" ELSE "LOW"

\* the chip-select and byte events as letters: L and H for the two edges,
\* x for a byte
PulseShape(b) ==
    LET x == SelectSeq(b, LAMBDA ev : ev.e # "rst")
    IN [k \in 1..Len(x) |->
           IF x[k].e = "xfer" THEN "x" ELSE IF x[k].v = 0 THEN "L" ELSE "H"]

\* one pulse of two bytes per register write, two such pulses per register read
RECURSIVE ExpectedShape(_)
ExpectedShape(o) ==
    IF o = <<>> THEN <<>>
    ELSE (IF Head(o).k = "W" THEN <<"L", "x", "x", "H">>
          ELSE <<"L", "x", "x", "H", "L", "x", "x", "H">>) \o ExpectedShape(Tail(o))

----------------------------------------------------------------------------
(* C1 (as claimed): a regRead of an address that regWrite has written      *)
(* returns the value last written there.  Checked under SpecReg, where the *)
(* bus is the register file of the SPI slave.                              *)
C1_RoundTrip ==
    (last = "regRead" /\ shadow[args[1]] # -1) => ret = ToInt16(shadow[args[1]])

(* C2 (as claimed): for a channel selector other than 1 or 2 setDataReady  *)
(* returns 0 and issues no register write.                                 *)
C2_NoWriteOnBadChannel ==
    (last = "setDataReady" /\ args[1] \notin {1, 2})
        => (ret = 0 /\ WriteCount(ops) = 0)

(* C2 (amended): for a channel selector other than 1 or 2 setDataReady     *)
(* returns 0 and issues exactly one register write, the page select of     *)
(* page 0; the GPIO control register is not written.                       *)
C2_OnlyPageSelectOnBadChannel ==
    (last = "setDataReady" /\ args[1] \notin {1, 2})
        => /\ ret = 0
           /\ Len(ops) = 1
           /\ IsWrite(ops, 1, PAGE_ID, 0)
           /\ PulseShape(bus) = ExpectedShape(ops)

C2_Witness ==
    last = "setDataReady" /\ args[1] = 3 /\ ret = 0 /\ Len(ops) = 1

(* C3 (as claimed): readFFT issues exactly three register writes and then  *)
(* exactly two register reads, every write before every read.              *)
C3_ThreeWritesTwoReads ==
    last = "readFFT"
        => /\ WriteCount(ops) = 3
           /\ ReadCount(ops) = 2
           /\ \A j, k \in 1..Len(ops) :
                 (ops[j].k = "W" /\ ops[k].k = "R") => j < k

(* C3 (amended): readFFT issues exactly two register writes, the page      *)
(* select of the sensor address and then the buffer pointer set to the     *)
(* sample index, and then exactly two register reads, X_BUF and then       *)
(* Y_BUF, with nothing else on the bus in between.                         *)
C3_TwoWritesTwoReads ==
    last = "readFFT"
        => /\ Len(ops) = 4
           /\ IsWrite(ops, 1, PAGE_ID, args[2])
           /\ IsWrite(ops, 2, BUF_PNTR, args[1])
           /\ IsRead(ops, 3, X_BUF)
           /\ IsRead(ops, 4, Y_BUF)
           /\ Len(PulseShape(bus)) = Len(bus)
           /\ PulseShape(bus) = ExpectedShape(ops)

C3_Witness ==
    last = "readFFT" /\ args = <<MaxSample, MaxSensor>> /\ Len(ops) = 4

(* C4 (as claimed): each of the four scaling functions returns a strictly  *)
(* negative value for raw sample 0x8000 and exactly 0 for raw sample 0.    *)
(* Checked under SpecScale.                                                *)
C4_SignOfScaled ==
    last \in {"scaleTime", "scaleFFT", "scaleSupply", "scaleTemp"}
        => /\ args[1] = 32768 => ret < 0
           /\ args[1] = 0 => ret = 0

(* C5 (as claimed): scaleTime and scaleFFT return the sign-adjusted sample *)
(* times the constant their table gives the selector, range 1's constant   *)
(* for a selector outside {1, 5, 10, 20}.  Checked under SpecScale, in     *)
(* units of 1e-5.                                                          *)
C5_ScaledByTableConstant ==
    /\ last = "scaleTime"
          => ret = SignAdjust(args[1], intBits)
                     * TimeLsb(IF args[2] \in {1, 5, 10, 20} THEN args[2] ELSE 1)
    /\ last = "scaleFFT"
          => ret = SignAdjust(args[1], intBits)
                     * FFTLsb(IF args[2] \in {1, 5, 10, 20} THEN args[2] ELSE 1)

(* C6 (as claimed): when readFFTBuffer returns, every entry 0..255 of the  *)
(* buffer holds a value read from X_BUF and every entry 256..511 a value   *)
(* read from Y_BUF.                                                        *)
C6_AxisSegmented ==
    last = "readFFTBuffer"
        => /\ \A j \in 0..(YOffset - 1) : mem[j].reg = X_BUF
           /\ \A j \in YOffset..(BufLen - 1) : mem[j].reg = Y_BUF

(* C7 (as claimed): the bytes regWrite transfers in its one chip-select    *)
(* pulse are the low word and then the high word, two bytes each, the low  *)
(* word being the address with the write flag and the lower data byte, the *)
(* high word address + 1 with the write flag and the upper data byte.      *)
(* Either byte order within a word is accepted.  Checked under SpecReg.    *)
C7_WriteFrame ==
    last = "regWrite"
        => LET a == args[1]
               d == args[2]
               lowA == (a % 128) + 128
               highA == ((a + 1) % 128) + 128
           IN /\ PulseShape(bus) = <<"L", "x", "x", "x", "x", "H">>
              /\ \/ Bytes(bus) = <<d % 256, lowA, d \div 256, highA>>
                 \/ Bytes(bus) = <<lowA, d % 256, highA, d \div 256>>

(* C8: chip-select discipline.  In every state after construction          *)
(* chip-select is high; every byte of the latest operation was transferred *)
(* while chip-select was low; and chip-select was asserted once per        *)
(* register write and twice per register read, each assertion framing two  *)
(* bytes.                                                                  *)
C8_ChipSelectDiscipline ==
    /\ cs = "HIGH"
    /\ \A k \in 1..Len(bus) : bus[k].e = "xfer" => CsBefore(bus, k) = "LOW"
    /\ CsLowCount(bus) = WriteCount(ops) + 2 * ReadCount(ops)
    /\ last # "ADIS16000" => PulseShape(bus) = ExpectedShape(ops)

C8_Witness ==
    /\ last = "readFFT"
    /\ WriteCount(ops) = 2 /\ ReadCount(ops) = 2
    /\ CsLowCount(bus) = 6
    /\ cs = "HIGH"

(* C9 (as claimed): every store of readFFTBuffer and of readFFT goes to an *)
(* index inside the buffer the function declares.                          *)
C9_StoresInBounds ==
    \A k \in 1..Len(stores) : stores[k] \in 0..(buflen - 1)

(* C10 (as claimed): every write to GLOB_CMD_G or CMD_DATA is issued while *)
(* the most recently written page-select value is 0.                       *)
C10_GatewayWritesOnPageZero ==
    \A k \in 1..Len(ops) :
        (ops[k].k = "W" /\ ops[k].reg \in {GLOB_CMD_G, CMD_DATA})
            => ops[k].page = 0

====
